---------------------------- MODULE Spec2Model ----------------------------
(***************************************************************************)
(* Motion-event detection and clip extraction of birdwatched:              *)
(*   ClipBuffer  (src/detector.py)     sliding-window buffer with trimming *)
(*   Detector    (src/detector.py)     idle/triggered/cooldown loop and    *)
(*                                     its detached clip/notify threads    *)
(*   RTSPCameraCapture (src/rtsp_camera.py)  reconnecting capture thread   *)
(*   CameraCapture (src/camera.py)     capture thread with a frame queue   *)
(*                                                                         *)
(* Motion scores are fixed-point numbers: Unit stands for the score 1.0,   *)
(* so 0.1 is Unit \div 10.  Arithmetic on them is exact when the scores    *)
(* are exact numbers (the bools of the detector, the ints of the tests)    *)
(* and rounds to two significant decimal digits when they are floats.      *)
(***************************************************************************)
EXTENDS Integers, Sequences, FiniteSets

VARIABLES
    \* ---- ClipBuffer fields
    max_clip_length,     \* clip_seconds * fps
    maxlen,              \* buffer.maxlen = max_clip_length + slack
    buffer,              \* deque of frames (a frame is named by its append number)
    motion_flags,        \* deque of scores, parallel to buffer
    window_totals,       \* deque of window sums
    global_frame_count,  \* counted modulo SavePeriod
    float_scores,        \* the scores are floats: sums and differences round
    \* ---- history of the ClipBuffer (not program state), kept by BufAppend
    recent,              \* the last min(n, L) appended scores, as stored
    score_class,         \* "bool": every score appended so far was exactly 0 or 1;
                         \* "valid": all were in [0;1]; "any": some were not
    evicted,             \* the last append pushed the oldest pair out at capacity
    held_full,           \* the buffer has held max_clip_length pairs at some time
    trimmed,             \* the evictions trim_start made in the last append
    fed,                 \* all scores appended, in order (kept by TestAppend)
    \* ---- Detector fields
    state,               \* "idle" | "triggered" | "cooldown"
    trigger_counter,
    cooldown_start,
    is_recording,
    enable_posts,        \* cfg.enable_posts
    \* ---- Detector threads and clock
    det_pc,              \* "running": in run's loop; "dead": run has returned;
                         \* "blocked": in a save_image call that does not return
    clip_jobs,           \* number of _write_clip threads at each place
    notify,              \* number of notification threads not yet run, by kind
    now,                 \* time.time(), in seconds
    \* ---- history of the Detector (not program state)
    triggers,            \* number of _trigger_event calls
    last_trigger,        \* time of the last _trigger_event call, -1 before
    run_len,             \* length of the current run of motion-positive cycles
    max_run,             \* longest such run so far
    idle_pos,            \* motion-positive Idle cycles since Idle was entered
    idle_run,            \* motion-positive cycles in a row dispatched in Idle
    dropped,             \* the last trigger found is_recording set
    appended,            \* frames the loop has appended, counted up to maxlen
    last_failure,        \* the collaborator call that failed last, "none" before
    \* ---- RTSPCameraCapture fields
    max_reconnect_attempts,
    reconnect_attempts,
    cap,                 \* TRUE: self.cap is a VideoCapture; FALSE: it is None
    running,
    connected,
    frame,               \* the latest-frame slot: 0 is None, k the k-th decoded frame
    consecutive_failures,  \* local of run
    cam_pc,              \* "new" | "connecting" | "loop" | "done"
    \* ---- history of the camera (not program state)
    exit_cause,          \* why run returned: "initial" | "stopped" | "exhausted"
    reconnects_made,     \* _reconnect calls that got past the attempt limit
    reconnect_ok,        \* some _reconnect call has succeeded
    stop_called,
    passes_after_stop,   \* loop passes begun since the last stop() call
    got,                 \* what the last get_frame call returned, -1 before
    got_done,            \* that call was made after run had returned
    \* ---- CameraCapture fields (src/camera.py)
    frame_buffer,        \* deque of captured frames, a frame named by its number
    fifo_running,        \* self.running
    fifo_pc,             \* "new" | "loop" | "done"
    \* ---- history of the CameraCapture (not program state)
    captured,            \* number of frames the capture thread has appended
    delivered,           \* the frames get_frame has returned, in order
    \* ---- the collaborators
    calls_hang,          \* a save_image call may fail to return
    stream,              \* the RTSP source: "up" (it opens and every read
                         \* yields a frame), "down" (nothing opens or reads),
                         \* "any" (each call goes either way)
    \* ---- one get_clip call running beside the detection loop
    gc_pc,               \* "idle": no call yet; "max" | "index" | "slice": the
                         \* statement to run next; "done" | "failed": the call
                         \* returned or raised
    best_windows_motion, \* get_clip's local, -1 before it is assigned
    idx,                 \* get_clip's local, counted from 1; 0 before
    clip,                \* what get_clip returned
    \* ---- history of that call (not program state)
    consistent,          \* what get_clip returns from each buffer state the
                         \* call has seen between two appends
    raced,               \* number of appends made while the call was in progress
    \* ---- history of the application (not program state)
    cycles_after_stop    \* detector loop passes begun since BirdWatcherApp.stop

bufvars == <<max_clip_length, maxlen, buffer, motion_flags, window_totals,
             global_frame_count, float_scores>>
bufhist == <<recent, score_class, evicted, held_full, trimmed, fed>>

detvars == <<state, trigger_counter, cooldown_start, is_recording,
             enable_posts, det_pc, clip_jobs, notify, now>>
dethist == <<triggers, last_trigger, run_len, max_run, idle_pos, idle_run,
            dropped, appended, last_failure>>

camvars == <<max_reconnect_attempts, reconnect_attempts, cap, running,
             connected, frame, consecutive_failures, cam_pc>>
camhist == <<exit_cause, reconnects_made, reconnect_ok, stop_called,
             passes_after_stop, got, got_done>>

fifovars == <<frame_buffer, fifo_running, fifo_pc>>
fifohist == <<captured, delivered>>

envvars == <<calls_hang, stream>>

gcvars == <<gc_pc, best_windows_motion, idx, clip>>
gchist == <<consistent, raced>>

apphist == <<cycles_after_stop>>

\* --------------------------------------------------------------- bounds
\* clip_seconds: the window holds ClipSeconds * Fps pairs.
ClipSeconds == 2
\* The buffer's slack over one window; 120 in the source.
Slack == 2

\* cfg.cooldown_seconds (20 by default), in ticks of the clock.
CooldownSeconds == 2
\* The clock runs for one cooldown period.
MaxTime == CooldownSeconds
\* At most MaxClipJobs _write_clip threads and MaxNotify notification
\* threads of one kind are alive at a time.
MaxClipJobs == 2
MaxNotify == 1

\* Rounding errors of window totals are followed up to MaxDrift hundredths.
MaxDrift == 10

\* The tests' buffer is fed at most MaxFed scores.
MaxFed == 14

\* max_reconnect_attempts of a camera with bounded attempts.
ReconnectLimit == 2
\* consecutive_failures is followed up to FailureSlack past the limit.
FailureSlack == 2
\* The camera decodes at most MaxFrames frames.
MaxFrames == 2
\* The slack of a buffer that takes longer to fill than the counter takes
\* to reach detection_frames_required.
WarmupSlack == 3
\* At most MaxRaced appends are made during one get_clip call.
MaxRaced == 2
\* maxlen of CameraCapture's frame_buffer; max(100, ...) in the source.
MaxBufferSize == 3
\* The CameraCapture captures at most MaxCaptured frames.
MaxCaptured == 6

\* ------------------------------------------------------------ constants
\* fps, as buffer_test.py builds its buffers: ClipBuffer(1, 4).
Fps == 1
\* clip_seconds of the tests' buffers.
TestClipSeconds == 4
\* The slack the source gives the buffer over one window.
SourceSlack == 120
\* run's max_consecutive_failures
max_consecutive_failures == 10
\* max_reconnect_attempts' default: no limit.
Unlimited == -1
\* cfg.detection_frames_required
DetectionFramesRequired == 3
\* cfg.movement_level_required, 0.5
MovementLevelRequired == 50
\* trigger_counter is followed up to one past the required count.
MaxCounter == DetectionFramesRequired + 1
\* reconnect_attempts is followed up to one past the limit.
MaxAttempts == ReconnectLimit + 1
\* The score 1.0 in fixed point.
Unit == 100
\* trim_start's default threshold, 0.1.
Threshold == 10
\* append calls trim_start(2).
TrimCount == 2
\* global_frame_count % 40000 == 0 saves the average frame; the period is
\* shortened to one more than the capacity so that the save happens.
SavePeriod == ClipSeconds * Fps + Slack + 1

\* Scores offered to append: 0, 0.05 (below the threshold), 0.1 (the
\* threshold), 1.0, and the two kinds of invalid score.
Scores == {0, 5, Threshold, Unit, Unit + 5, -5}

\* -------------------------------------------------------------- helpers
Last(s) == s[Len(s)]

RECURSIVE SumSeq(_)
SumSeq(s) == IF s = <<>> THEN 0 ELSE s[1] + SumSeq(Tail(s))

RECURSIVE MaxSeq(_)
MaxSeq(s) == IF Len(s) = 1 THEN s[1]
             ELSE LET m == MaxSeq(Tail(s)) IN IF s[1] >= m THEN s[1] ELSE m

Min(a, b) == IF a <= b THEN a ELSE b

\* The last k elements of s (all of s when it is shorter).
LastN(s, k) == IF Len(s) <= k THEN s ELSE SubSeq(s, Len(s) - k + 1, Len(s))

\* x rounded to the nearest multiple of u, ties to the even multiple.
RoundTo(x, u) ==
    LET q == x \div u
        r == x % u
    IN IF 2 * r < u THEN q * u
       ELSE IF 2 * r > u THEN (q + 1) * u
       ELSE IF q % 2 = 0 THEN q * u ELSE (q + 1) * u

\* A float keeps two significant digits: below 1.0 every hundredth is a
\* float, from 1.0 up to 10.0 every tenth.
Round(x) == IF -Unit < x /\ x < Unit THEN x ELSE RoundTo(x, Unit \div 10)

\* a + b and a - b as Python computes them for the scores' number type.
Plus(a, b) == IF float_scores THEN Round(a + b) ELSE a + b
Minus(a, b) == IF float_scores THEN Round(a - b) ELSE a - b

\* collections.deque(maxlen=n).append(x): the oldest element falls out.
DequeAppend(q, x, n) == IF Len(q) = n THEN Tail(q) \o <<x>> ELSE Append(q, x)

\* ----------------------------------------------------------- ClipBuffer
\* The ClipBuffer object as a record.
Buf == [max_clip_length |-> max_clip_length, maxlen |-> maxlen,
        buffer |-> buffer, motion_flags |-> motion_flags,
        window_totals |-> window_totals,
        global_frame_count |-> global_frame_count]

\* ClipBuffer.__init__
NewClipBuffer(fps, clip_seconds, slack) ==
    [max_clip_length |-> clip_seconds * fps,
     maxlen |-> clip_seconds * fps + slack,
     buffer |-> <<>>, motion_flags |-> <<>>,
     window_totals |-> <<0>>,
     global_frame_count |-> 0]

\* Coerce clamping a score above 1 to 1 instead of replacing it by 0.
CoerceClamp(motion) ==
    IF motion > Unit THEN Unit ELSE IF motion < 0 THEN 0 ELSE motion

\* append's validation: a score outside [0;1] becomes 0.
Coerce(motion) == IF motion > Unit \/ motion < 0 THEN 0 ELSE motion

\* AppendCore subtracting the score one place too late (index -L instead
\* of -L-1).
AppendCoreWrongDrop(b, new_frame, motion) ==
    LET m      == Coerce(motion)
        buf1   == DequeAppend(b.buffer, new_frame, b.maxlen)
        flags1 == DequeAppend(b.motion_flags, m, b.maxlen)
        wt1    == IF Len(buf1) <= b.max_clip_length
                  THEN [b.window_totals EXCEPT ![1] = Plus(@, m)]
                  ELSE DequeAppend(b.window_totals,
                           Minus(Plus(Last(b.window_totals), m),
                                 flags1[Len(flags1) - b.max_clip_length + 1]),
                           b.maxlen - b.max_clip_length + 1)
    IN [b EXCEPT !.buffer = buf1, !.motion_flags = flags1,
                 !.window_totals = wt1,
                 !.global_frame_count = (@ + 1) % SavePeriod]

\* AppendCore forgetting to subtract the score that leaves the window.
AppendCoreNoDrop(b, new_frame, motion) ==
    LET m      == Coerce(motion)
        buf1   == DequeAppend(b.buffer, new_frame, b.maxlen)
        flags1 == DequeAppend(b.motion_flags, m, b.maxlen)
        wt1    == IF Len(buf1) <= b.max_clip_length
                  THEN [b.window_totals EXCEPT ![1] = Plus(@, m)]
                  ELSE DequeAppend(b.window_totals,
                           Plus(Last(b.window_totals), m),
                           b.maxlen - b.max_clip_length + 1)
    IN [b EXCEPT !.buffer = buf1, !.motion_flags = flags1,
                 !.window_totals = wt1,
                 !.global_frame_count = (@ + 1) % SavePeriod]

\* AppendCore ending the warm-up one pair early (< for <=).
AppendCoreEarlyWindow(b, new_frame, motion) ==
    LET m      == Coerce(motion)
        buf1   == DequeAppend(b.buffer, new_frame, b.maxlen)
        flags1 == DequeAppend(b.motion_flags, m, b.maxlen)
        wt1    == IF Len(buf1) < b.max_clip_length
                  THEN [b.window_totals EXCEPT ![1] = Plus(@, m)]
                  ELSE DequeAppend(b.window_totals,
                           Minus(Plus(Last(b.window_totals), m),
                                 IF Len(flags1) > b.max_clip_length
                                 THEN flags1[Len(flags1) - b.max_clip_length]
                                 ELSE 0),
                           b.maxlen - b.max_clip_length + 1)
    IN [b EXCEPT !.buffer = buf1, !.motion_flags = flags1,
                 !.window_totals = wt1,
                 !.global_frame_count = (@ + 1) % SavePeriod]

\* append up to the call of trim_start.
AppendCore(b, new_frame, motion) ==
    LET m      == Coerce(motion)
        buf1   == DequeAppend(b.buffer, new_frame, b.maxlen)
        flags1 == DequeAppend(b.motion_flags, m, b.maxlen)
        wt1    == IF Len(buf1) <= b.max_clip_length
                  THEN [b.window_totals EXCEPT ![1] = Plus(@, m)]
                  ELSE DequeAppend(b.window_totals,
                           Minus(Plus(Last(b.window_totals), m),
                                 flags1[Len(flags1) - b.max_clip_length]),
                           b.maxlen - b.max_clip_length + 1)
    IN [b EXCEPT !.buffer = buf1, !.motion_flags = flags1,
                 !.window_totals = wt1,
                 !.global_frame_count = (@ + 1) % SavePeriod]

\* TrimStops keeping only heads above the threshold (> for >=).
TrimStopsStrict(b, threshold) ==
    Len(b.buffer) = 0 \/ b.motion_flags[1] > threshold

\* trim_start's test at the top of one round: nothing to trim.
TrimStops(b, threshold) ==
    Len(b.buffer) = 0 \/ b.motion_flags[1] >= threshold

\* TrimOne leaving window_totals as it is.
TrimOneKeepTotals(b) ==
    [b EXCEPT !.buffer = Tail(@), !.motion_flags = Tail(@)]

\* TrimOne popping window_totals even when it holds a single entry.
TrimOnePopAlways(b) ==
    [b EXCEPT !.buffer = Tail(@), !.motion_flags = Tail(@),
              !.window_totals = Tail(@)]

\* One round of trim_start's loop that evicts the head pair.
TrimOne(b) ==
    [b EXCEPT !.buffer = Tail(@), !.motion_flags = Tail(@),
              !.window_totals =
                  IF Len(@) > 1 THEN Tail(@)
                  ELSE [@ EXCEPT ![1] = Minus(@, b.motion_flags[1])]]

\* TrimStart evicting nothing.
TrimStartSkip(b, frame_cnt, threshold) == b

RECURSIVE TrimStart(_, _, _)
TrimStart(b, frame_cnt, threshold) ==
    IF frame_cnt = 0 \/ TrimStops(b, threshold) THEN b
    ELSE TrimStart(TrimOne(b), frame_cnt - 1, threshold)

\* What trim_start evicts, in order: the score, the number of window_totals
\* entries at that moment and the buffer length left behind.
RECURSIVE TrimLog(_, _, _)
TrimLog(b, frame_cnt, threshold) ==
    IF frame_cnt = 0 \/ TrimStops(b, threshold) THEN <<>>
    ELSE <<[score   |-> b.motion_flags[1],
            entries |-> Len(b.window_totals),
            left    |-> Len(b.buffer) - 1]>>
         \o TrimLog(TrimOne(b), frame_cnt - 1, threshold)

\* ClipAppend trimming before it appends.
ClipAppendTrimFirst(b, new_frame, motion) ==
    AppendCore(TrimStart(b, TrimCount, Threshold), new_frame, motion)

\* ClipBuffer.append
ClipAppend(b, new_frame, motion) ==
    TrimStart(AppendCore(b, new_frame, motion), TrimCount, Threshold)

\* window_totals.index(max(window_totals)), counted from 1.
FirstMaxIndex(s) ==
    CHOOSE i \in 1..Len(s) :
        s[i] = MaxSeq(s) /\ \A j \in 1..(i - 1) : s[j] # MaxSeq(s)

\* The slice list(q)[i - 1 : i - 1 + n] of Python, i counted from 1.
Slice(q, i, n) == SubSeq(q, i, Min(i + n - 1, Len(q)))

\* GetClip taking the latest of the best windows.
GetClipLatest(b) ==
    LET i == CHOOSE k \in 1..Len(b.window_totals) :
                 b.window_totals[k] = MaxSeq(b.window_totals)
                 /\ \A j \in (k + 1)..Len(b.window_totals) :
                        b.window_totals[j] # MaxSeq(b.window_totals)
    IN Slice(b.buffer, i, b.max_clip_length)

\* GetClip slicing one frame short.
GetClipShort(b) ==
    Slice(b.buffer, FirstMaxIndex(b.window_totals), b.max_clip_length - 1)

\* ClipBuffer.get_clip
GetClip(b) ==
    Slice(b.buffer, FirstMaxIndex(b.window_totals), b.max_clip_length)

\* The frame object appended next is named by its append number.
NextFrame(b) == (b.global_frame_count + 1) % SavePeriod

\* The class of one score, and the worse of two classes.
ClassOf(motion) == IF motion \in {0, Unit} THEN "bool"
                   ELSE IF motion = Coerce(motion) THEN "valid" ELSE "any"

WorseClass(c, d) == IF "any" \in {c, d} THEN "any"
                    ELSE IF "valid" \in {c, d} THEN "valid" ELSE "bool"

\* The history kept beside an append.
HistAfter(b, motion) ==
    LET b1 == AppendCore(b, NextFrame(b), motion)
        b2 == TrimStart(b1, TrimCount, Threshold)
    IN /\ recent' = LastN(Append(recent, Coerce(motion)), b.max_clip_length)
       /\ score_class' = WorseClass(score_class, ClassOf(motion))
       /\ evicted' = (Len(b.buffer) = b.maxlen)
       /\ held_full' = (held_full \/ Len(b1.buffer) >= b.max_clip_length)
       /\ trimmed' = TrimLog(b1, TrimCount, Threshold)

SetBuf(b) ==
    /\ max_clip_length' = b.max_clip_length
    /\ maxlen' = b.maxlen
    /\ buffer' = b.buffer
    /\ motion_flags' = b.motion_flags
    /\ window_totals' = b.window_totals
    /\ global_frame_count' = b.global_frame_count
    /\ float_scores' = float_scores

\* The fields of a freshly built ClipBuffer.
BufIs(b) ==
    /\ max_clip_length = b.max_clip_length
    /\ maxlen = b.maxlen
    /\ buffer = b.buffer
    /\ motion_flags = b.motion_flags
    /\ window_totals = b.window_totals
    /\ global_frame_count = b.global_frame_count

InitBuffer ==
    /\ BufIs(NewClipBuffer(Fps, ClipSeconds, Slack))
    /\ recent = <<>>
    /\ score_class = "bool"
    /\ evicted = FALSE
    /\ held_full = FALSE
    /\ trimmed = <<>>


\* ------------------------------------------------------------- Detector
STATE_IDLE == "idle"
STATE_TRIGGERED == "triggered"
STATE_COOLDOWN == "cooldown"

\* Places of a _write_clip thread: started and not yet run; is_recording
\* set, before get_clip; clip taken, before save_video.
ClipPcs == {"spawned", "fetch", "save"}
\* Notifications run in threads of their own.
NotifyKinds == {"send_photo", "playsound", "send_video"}

ClipJobCount(jobs) == jobs["spawned"] + jobs["fetch"] + jobs["save"]

\* IsReady true as soon as one window is held.
IsReadyOneWindow(b) == Len(b.buffer) >= b.max_clip_length

\* ClipBuffer.is_ready
IsReady(b) == Len(b.buffer) = b.maxlen

\* ClipBuffer.motion_percent() >= level, both sides times max_clip_length.
MotionPercentAtLeast(b, level) ==
    MaxSeq(b.window_totals) >= level * b.max_clip_length

\* The Detector object as a record.
Det == [state |-> state, trigger_counter |-> trigger_counter,
        cooldown_start |-> cooldown_start, is_recording |-> is_recording,
        det_pc |-> det_pc, clip_jobs |-> clip_jobs, notify |-> notify,
        triggers |-> triggers, last_trigger |-> last_trigger,
        last_failure |-> last_failure, dropped |-> dropped]

\* Detector.__init__
NewDetector ==
    [state |-> STATE_IDLE, trigger_counter |-> 0, cooldown_start |-> 0,
     is_recording |-> FALSE, det_pc |-> "running",
     clip_jobs |-> [p \in ClipPcs |-> 0],
     notify |-> [k \in NotifyKinds |-> 0],
     triggers |-> 0, last_trigger |-> -1, last_failure |-> "none",
     dropped |-> FALSE]

\* An exception that reaches run's except clause: it is logged and run
\* returns.
Raised(d, what) == [d EXCEPT !.det_pc = "dead", !.last_failure = what]

\* What a synchronous call of a collaborator does: it returns, it raises, or
\* it does not return.
CallOutcomes == {"ok", "raise", "hang"}

\* The detection thread in a call that raised or does not return.
Stopped(d, what, outcome) ==
    IF outcome = "raise" THEN Raised(d, what)
    ELSE [d EXCEPT !.det_pc = "blocked"]

\* TriggerEvent starting a clip thread whatever is_recording says.
TriggerEventQueue(d, posts, t, save_res) ==
    LET d0 == [d EXCEPT !.triggers = @ + 1, !.last_trigger = t]
        n1 == IF posts THEN [d.notify EXCEPT !["send_photo"] = @ + 1]
              ELSE d.notify
        n2 == [n1 EXCEPT !["playsound"] = @ + 1]
    IN IF save_res # "ok" THEN Stopped(d0, "save_image", save_res)
       ELSE [d0 EXCEPT !.notify = n2,
                       !.dropped = d.is_recording,
                       !.clip_jobs = [@ EXCEPT !["spawned"] = @ + 1]]

\* Detector._trigger_event; save_res: what storage.save_image does.
TriggerEvent(d, posts, t, save_res) ==
    LET d0 == [d EXCEPT !.triggers = @ + 1, !.last_trigger = t]
        n1 == IF posts THEN [d.notify EXCEPT !["send_photo"] = @ + 1]
              ELSE d.notify
        n2 == [n1 EXCEPT !["playsound"] = @ + 1]
    IN IF save_res # "ok" THEN Stopped(d0, "save_image", save_res)
       ELSE [d0 EXCEPT !.notify = n2,
                       !.dropped = d.is_recording,
                       !.clip_jobs = IF d.is_recording THEN @
                                     ELSE [@ EXCEPT !["spawned"] = @ + 1]]

\* CountMovement counting a motion-positive cycle twice.
CountMovementDouble(counter, movement) ==
    IF movement THEN counter + 2
    ELSE IF counter - 1 > 0 THEN counter - 1 ELSE 0

\* CountMovement decrementing without a floor.
CountMovementNoFloor(counter, movement) ==
    IF movement THEN counter + 1 ELSE counter - 1

\* The hysteresis step of _handle_idle.
CountMovement(counter, movement) ==
    IF movement THEN counter + 1
    ELSE IF counter - 1 > 0 THEN counter - 1 ELSE 0

\* HandleIdle firing whether or not the buffer is ready.
HandleIdleAnyBuffer(d, b, movement, posts, t, save_res) ==
    LET c  == CountMovement(d.trigger_counter, movement)
        d1 == [d EXCEPT !.trigger_counter = c]
    IN IF c >= DetectionFramesRequired
          /\ MotionPercentAtLeast(b, MovementLevelRequired)
       THEN LET d2 == TriggerEvent(d1, posts, t, save_res)
            IN IF d2.det_pc # "running" THEN d2
               ELSE [d2 EXCEPT !.state = STATE_TRIGGERED,
                               !.trigger_counter = 0]
       ELSE d1

\* HandleIdle leaving the counter as it is when the trigger fires.
HandleIdleNoReset(d, b, movement, posts, t, save_res) ==
    LET c  == CountMovement(d.trigger_counter, movement)
        d1 == [d EXCEPT !.trigger_counter = c]
    IN IF c >= DetectionFramesRequired /\ IsReady(b)
          /\ MotionPercentAtLeast(b, MovementLevelRequired)
       THEN LET d2 == TriggerEvent(d1, posts, t, save_res)
            IN IF d2.det_pc # "running" THEN d2
               ELSE [d2 EXCEPT !.state = STATE_TRIGGERED]
       ELSE d1

\* Detector._handle_idle, b the buffer after this cycle's append
HandleIdle(d, b, movement, posts, t, save_res) ==
    LET c  == CountMovement(d.trigger_counter, movement)
        d1 == [d EXCEPT !.trigger_counter = c]
    IN IF c >= DetectionFramesRequired /\ IsReady(b)
          /\ MotionPercentAtLeast(b, MovementLevelRequired)
       THEN LET d2 == TriggerEvent(d1, posts, t, save_res)
            IN IF d2.det_pc # "running" THEN d2
               ELSE [d2 EXCEPT !.state = STATE_TRIGGERED,
                               !.trigger_counter = 0]
       ELSE d1

\* HandleCooldown comparing the wrong way round (<= for >=).
HandleCooldownEarly(d, t) ==
    IF t - d.cooldown_start <= CooldownSeconds
    THEN [d EXCEPT !.state = STATE_IDLE, !.trigger_counter = 0]
    ELSE d

\* HandleCooldown waiting for more than cooldown_seconds (> for >=).
HandleCooldownLate(d, t) ==
    IF t - d.cooldown_start > CooldownSeconds
    THEN [d EXCEPT !.state = STATE_IDLE, !.trigger_counter = 0]
    ELSE d

\* Detector._handle_cooldown
HandleCooldown(d, t) ==
    IF t - d.cooldown_start >= CooldownSeconds
    THEN [d EXCEPT !.state = STATE_IDLE, !.trigger_counter = 0]
    ELSE d

\* Dispatch going from Triggered straight back to Idle.
DispatchNoCooldown(d, b, movement, posts, t, save_res) ==
    IF d.state = STATE_IDLE THEN HandleIdle(d, b, movement, posts, t, save_res)
    ELSE IF d.state = STATE_TRIGGERED
    THEN [d EXCEPT !.state = STATE_IDLE, !.cooldown_start = t]
    ELSE HandleCooldown(d, t)

\* Dispatch entering Cooldown without recording its start.
DispatchStaleStart(d, b, movement, posts, t, save_res) ==
    IF d.state = STATE_IDLE THEN HandleIdle(d, b, movement, posts, t, save_res)
    ELSE IF d.state = STATE_TRIGGERED
    THEN [d EXCEPT !.state = STATE_COOLDOWN]
    ELSE HandleCooldown(d, t)

\* run's dispatch on the state, after the append.
Dispatch(d, b, movement, posts, t, save_res) ==
    IF d.state = STATE_IDLE THEN HandleIdle(d, b, movement, posts, t, save_res)
    ELSE IF d.state = STATE_TRIGGERED
    THEN [d EXCEPT !.state = STATE_COOLDOWN, !.cooldown_start = t]
    ELSE HandleCooldown(d, t)

\* One pass of run's loop with a frame: the append, the periodic save of
\* the average frame, the dispatch.  avg_res, save_res: what the two save_image
\* calls return.
ProcessFrame(d, b, movement, posts, t, avg_res, save_res) ==
    IF b.global_frame_count = 0 /\ avg_res # "ok"
    THEN Stopped(d, "save_image", avg_res)
    ELSE Dispatch(d, b, movement, posts, t, save_res)

SetDet(d) ==
    /\ state' = d.state
    /\ trigger_counter' = d.trigger_counter
    /\ cooldown_start' = d.cooldown_start
    /\ is_recording' = d.is_recording
    /\ det_pc' = d.det_pc
    /\ clip_jobs' = d.clip_jobs
    /\ notify' = d.notify
    /\ triggers' = d.triggers
    /\ last_trigger' = d.last_trigger
    /\ last_failure' = d.last_failure
    /\ dropped' = d.dropped

DetIs(d) ==
    /\ state = d.state
    /\ trigger_counter = d.trigger_counter
    /\ cooldown_start = d.cooldown_start
    /\ is_recording = d.is_recording
    /\ det_pc = d.det_pc
    /\ clip_jobs = d.clip_jobs
    /\ notify = d.notify
    /\ triggers = d.triggers
    /\ last_trigger = d.last_trigger
    /\ last_failure = d.last_failure
    /\ dropped = d.dropped

\* The threads and the counter stay within the model's bounds.
WithinBounds(d) ==
    /\ d.trigger_counter <= MaxCounter
    /\ ClipJobCount(d.clip_jobs) <= MaxClipJobs
    /\ \A k \in NotifyKinds : d.notify[k] <= MaxNotify

\* The history of motion-positive cycles kept beside a processed cycle.
RunHist(d, movement) ==
    LET r == IF movement THEN Min(run_len + 1, DetectionFramesRequired) ELSE 0
    IN /\ run_len' = r
       /\ max_run' = IF r > max_run THEN r ELSE max_run
       /\ idle_pos' = IF state = STATE_IDLE
                      THEN IF movement
                           THEN Min(idle_pos + 1, DetectionFramesRequired)
                           ELSE idle_pos
                      ELSE IF d.state = STATE_IDLE THEN 0 ELSE idle_pos
       /\ idle_run' = IF state = STATE_IDLE /\ movement
                      THEN Min(idle_run + 1, DetectionFramesRequired)
                      ELSE 0
       /\ appended' = Min(appended + 1, maxlen)

InitDetector ==
    /\ DetIs(NewDetector)
    /\ enable_posts \in BOOLEAN
    /\ now = 0
    /\ run_len = 0
    /\ max_run = 0
    /\ idle_pos = 0
    /\ idle_run = 0
    /\ appended = 0

\* DetNoFrame appending the missing frame as a motionless one.
DetNoFrameAppend ==
    /\ det_pc = "running"
    /\ SetBuf(ClipAppend(Buf, NextFrame(Buf), 0))
    /\ UNCHANGED <<bufhist, detvars, dethist>>

\* One pass of run's loop in which camera.get_frame() returned None.
DetNoFrame ==
    /\ det_pc = "running"
    /\ UNCHANGED <<bufvars, bufhist, detvars, dethist>>

\* One pass of run's loop in which camera.get_frame() returned a frame.
DetCycle ==
    /\ det_pc = "running"
    /\ \E movement \in BOOLEAN, avg_res \in CallOutcomes,
          save_res \in CallOutcomes :
         /\ "hang" \in {avg_res, save_res} => calls_hang
         /\ avg_res = "ok" \/ save_res = "ok"
         /\ \E b \in {ClipAppend(Buf, NextFrame(Buf),
                                  IF movement THEN Unit ELSE 0)} :
              \E d \in {ProcessFrame(Det, b, movement, enable_posts, now,
                                      avg_res, save_res)} :
                \* a failing save_image is drawn only where save_image is
                \* called
                /\ (avg_res # "ok" \/ save_res # "ok")
                      => d.det_pc # "running"
                /\ WithinBounds(d)
                /\ SetBuf(b)
                /\ UNCHANGED bufhist
                /\ SetDet(d)
                /\ RunHist(d, movement)
    /\ UNCHANGED <<enable_posts, now>>

\* The clock advances.
Tick ==
    /\ now < MaxTime
    /\ now' = now + 1
    /\ UNCHANGED <<bufvars, bufhist, state, trigger_counter, cooldown_start,
                   is_recording, enable_posts, det_pc, clip_jobs, notify,
                   dethist>>

\* _write_clip starts: is_recording = True.
ClipBegin ==
    /\ clip_jobs["spawned"] > 0
    /\ clip_jobs' = [clip_jobs EXCEPT !["spawned"] = @ - 1, !["fetch"] = @ + 1]
    /\ is_recording' = TRUE
    /\ UNCHANGED <<bufvars, bufhist, state, trigger_counter, cooldown_start,
                   enable_posts, det_pc, notify, now, dethist>>

\* ClipGet without the finally clause: a get_clip that raises leaves
\* is_recording set.
ClipGetNoFinally ==
    /\ clip_jobs["fetch"] > 0
    /\ \E ok \in BOOLEAN :
         IF ok
         THEN /\ clip_jobs' = [clip_jobs EXCEPT !["fetch"] = @ - 1,
                                                !["save"] = @ + 1]
              /\ UNCHANGED <<is_recording, last_failure>>
         ELSE /\ clip_jobs' = [clip_jobs EXCEPT !["fetch"] = @ - 1]
              /\ last_failure' = "get_clip"
              /\ UNCHANGED is_recording
    /\ UNCHANGED <<bufvars, bufhist, state, trigger_counter, cooldown_start,
                   enable_posts, det_pc, notify, now, triggers, last_trigger,
                   run_len, max_run, idle_pos, idle_run, dropped,
                   appended>>

\* _write_clip: frames = self.buffer.get_clip(); if it raises, the finally
\* clause clears is_recording and the thread ends.
ClipGet ==
    /\ clip_jobs["fetch"] > 0
    /\ \E ok \in BOOLEAN :
         IF ok
         THEN /\ clip_jobs' = [clip_jobs EXCEPT !["fetch"] = @ - 1,
                                                !["save"] = @ + 1]
              /\ UNCHANGED <<is_recording, last_failure>>
         ELSE /\ clip_jobs' = [clip_jobs EXCEPT !["fetch"] = @ - 1]
              /\ last_failure' = "get_clip"
              /\ is_recording' = FALSE
    /\ UNCHANGED <<bufvars, bufhist, state, trigger_counter, cooldown_start,
                   enable_posts, det_pc, notify, now, triggers, last_trigger,
                   run_len, max_run, idle_pos, idle_run, dropped,
                   appended>>

\* _write_clip: save_video, the send_video thread, and the finally clause;
\* ok: neither save_video nor the start of the send_video thread raised.
ClipSave ==
    /\ clip_jobs["save"] > 0
    /\ clip_jobs' = [clip_jobs EXCEPT !["save"] = @ - 1]
    /\ is_recording' = FALSE
    /\ \E ok \in BOOLEAN :
         IF ok
         THEN /\ notify' = IF enable_posts
                           THEN [notify EXCEPT !["send_video"] = @ + 1]
                           ELSE notify
              /\ notify'["send_video"] <= MaxNotify
              /\ UNCHANGED last_failure
         ELSE /\ last_failure' = "save_video"
              /\ UNCHANGED notify
    /\ UNCHANGED <<bufvars, bufhist, state, trigger_counter, cooldown_start,
                   enable_posts, det_pc, now, triggers, last_trigger,
                   run_len, max_run, idle_pos, idle_run, dropped,
                   appended>>

\* A notification thread runs: send_photo, playsound or send_video.
NotifyRun ==
    \E k \in NotifyKinds :
        /\ notify[k] > 0
        /\ notify' = [notify EXCEPT ![k] = @ - 1]
        /\ \E ok \in BOOLEAN :
               last_failure' = IF ok THEN last_failure ELSE k
        /\ UNCHANGED <<bufvars, bufhist, state, trigger_counter,
                       cooldown_start, is_recording, enable_posts, det_pc,
                       clip_jobs, now, triggers, last_trigger, run_len,
                       max_run, idle_pos, idle_run, dropped,
                   appended>>


\* ---------------------------------------------------- RTSPCameraCapture
\* The camera object, with run's local consecutive_failures, as a record.
\* ret is the value the last _connect or _reconnect call returned.
Cam == [max_reconnect_attempts |-> max_reconnect_attempts,
        reconnect_attempts |-> reconnect_attempts, cap |-> cap,
        running |-> running, connected |-> connected, frame |-> frame,
        consecutive_failures |-> consecutive_failures, ret |-> FALSE,
        broke |-> FALSE, tried |-> FALSE]

\* RTSPCameraCapture.__init__
NewCamera(limit) ==
    [max_reconnect_attempts |-> limit, reconnect_attempts |-> 0,
     cap |-> FALSE, running |-> FALSE, connected |-> FALSE, frame |-> 0,
     consecutive_failures |-> 0, ret |-> FALSE, broke |-> FALSE,
     tried |-> FALSE]

\* RTSPCameraCapture._connect; ok: the stream opens and yields a frame.
Connect(c, ok) ==
    IF ok THEN [c EXCEPT !.cap = TRUE, !.connected = TRUE,
                         !.reconnect_attempts = 0, !.ret = TRUE]
    ELSE [c EXCEPT !.cap = FALSE, !.ret = FALSE]

\* LimitReached allowing one attempt more (> for >=).
LimitReachedLate(c) ==
    c.max_reconnect_attempts > 0
        /\ c.reconnect_attempts > c.max_reconnect_attempts

\* The limit test at the top of _reconnect and after its failure in run.
LimitReached(c) ==
    c.max_reconnect_attempts > 0
        /\ c.reconnect_attempts >= c.max_reconnect_attempts

\* RTSPCameraCapture._reconnect; tried: the call got past the limit test.
Reconnect(c, ok) ==
    IF LimitReached(c) THEN [c EXCEPT !.ret = FALSE]
    ELSE Connect([c EXCEPT !.reconnect_attempts = @ + 1, !.cap = FALSE,
                           !.connected = FALSE, !.tried = TRUE], ok)

\* run after a _reconnect call in the read-failure branches: break when it
\* failed at the limit, continue when it failed, else reset the count.
AfterReconnect(r) ==
    IF ~r.ret THEN [r EXCEPT !.broke = LimitReached(r)]
    ELSE [r EXCEPT !.consecutive_failures = 0]

\* run's branch for a read that returned no frame.
ReadFailed(c, timed_out, ok) ==
    LET c1 == [c EXCEPT !.consecutive_failures = @ + 1]
    IN IF timed_out \/ c1.consecutive_failures >= max_consecutive_failures
       THEN AfterReconnect(Reconnect(c1, ok))
       ELSE c1

\* ReadRaised counting the failure without ever reconnecting.
ReadRaisedNoRetry(c, ok) == [c EXCEPT !.consecutive_failures = @ + 1]

\* run's except clause.
ReadRaised(c, ok) ==
    LET c1 == [c EXCEPT !.consecutive_failures = @ + 1]
    IN IF c1.consecutive_failures >= max_consecutive_failures
       THEN LET r == Reconnect(c1, ok)
            IN IF ~r.ret THEN [r EXCEPT !.broke = LimitReached(r)] ELSE r
       ELSE c1

\* Pass emptying the latest-frame slot on a pass that decodes nothing.
PassClearsSlot(c, read, timed_out, ok) ==
    IF ~c.cap \/ read = "raise" THEN [ReadRaised(c, ok) EXCEPT !.frame = 0]
    ELSE IF read = "none"
    THEN [ReadFailed(c, timed_out, ok) EXCEPT !.frame = 0]
    ELSE IF read = "filter"
    THEN [ReadRaised([c EXCEPT !.consecutive_failures = 0], ok)
             EXCEPT !.frame = 0]
    ELSE [c EXCEPT !.consecutive_failures = 0, !.frame = @ + 1]

\* One pass of run's loop.  read: what self.cap.read() and the filter chain
\* did: "frame", "none" (no frame), "raise" (read raised; always so when
\* cap is None), "filter" (a frame was read and the filter chain raised).
Pass(c, read, timed_out, ok) ==
    IF ~c.cap \/ read = "raise" THEN ReadRaised(c, ok)
    ELSE IF read = "none" THEN ReadFailed(c, timed_out, ok)
    ELSE IF read = "filter"
    THEN ReadRaised([c EXCEPT !.consecutive_failures = 0], ok)
    ELSE [c EXCEPT !.consecutive_failures = 0, !.frame = @ + 1]

\* RTSPCameraCapture.get_frame
GetFrameResult(c) == c.frame

SetCam(c) ==
    /\ max_reconnect_attempts' = c.max_reconnect_attempts
    /\ reconnect_attempts' = c.reconnect_attempts
    /\ cap' = c.cap
    /\ running' = c.running
    /\ connected' = c.connected
    /\ frame' = c.frame
    /\ consecutive_failures' = c.consecutive_failures

CamIs(c) ==
    /\ max_reconnect_attempts = c.max_reconnect_attempts
    /\ reconnect_attempts = c.reconnect_attempts
    /\ cap = c.cap
    /\ running = c.running
    /\ connected = c.connected
    /\ frame = c.frame
    /\ consecutive_failures = c.consecutive_failures

InitCamera ==
    /\ \E limit \in {Unlimited, ReconnectLimit} : CamIs(NewCamera(limit))
    /\ cam_pc = "new"
    /\ exit_cause = "none"
    /\ reconnects_made = 0
    /\ reconnect_ok = FALSE
    /\ stop_called = FALSE
    /\ passes_after_stop = 0
    /\ got = -1
    /\ got_done = FALSE

\* BirdWatcherApp.start: camera.start()
CamStart ==
    /\ cam_pc = "new"
    /\ cam_pc' = "connecting"
    /\ UNCHANGED <<max_reconnect_attempts, reconnect_attempts, cap, running,
                   connected, frame, consecutive_failures, camhist>>

\* run up to the loop: the initial _connect, then self.running = True.
RunConnect ==
    /\ cam_pc = "connecting"
    /\ \E ok \in BOOLEAN :
         /\ stream = "up" => ok
         /\ stream = "down" => ~ok
         /\ LET c == Connect(Cam, ok)
            IN IF c.ret
               THEN /\ SetCam([c EXCEPT !.running = TRUE,
                                        !.consecutive_failures = 0])
                    /\ cam_pc' = "loop"
                    /\ UNCHANGED exit_cause
               ELSE /\ SetCam(c)
                    /\ cam_pc' = "done"
                    /\ exit_cause' = "initial"
    /\ UNCHANGED <<reconnects_made, reconnect_ok, stop_called,
                   passes_after_stop, got, got_done>>

\* One pass of the loop, self.running being true.
RunPass ==
    /\ cam_pc = "loop"
    /\ running
    /\ \E read \in {"frame", "none", "raise", "filter"},
          timed_out \in BOOLEAN, ok \in BOOLEAN :
         /\ stream = "up" => (read = "frame" /\ ok)
         /\ stream = "down" => (read \in {"none", "raise"} /\ ~ok)
         /\ \E c \in {Pass(Cam, read, timed_out, ok)} :
              /\ c.frame <= MaxFrames
              /\ c.consecutive_failures
                    <= max_consecutive_failures + FailureSlack
              /\ c.reconnect_attempts <= MaxAttempts
              /\ SetCam(c)
              /\ cam_pc' = IF c.broke THEN "done" ELSE "loop"
              /\ exit_cause' = IF c.broke THEN "exhausted" ELSE exit_cause
              /\ reconnects_made' =
                    IF c.tried THEN Min(reconnects_made + 1, MaxAttempts + 1)
                    ELSE reconnects_made
              /\ reconnect_ok' = (reconnect_ok \/ (c.tried /\ c.ret))
    /\ passes_after_stop' = IF stop_called THEN Min(passes_after_stop + 1, 2)
                            ELSE 0
    /\ UNCHANGED <<stop_called, got, got_done>>

\* The loop test fails: cleanup, and run returns.
RunExit ==
    /\ cam_pc = "loop"
    /\ ~running
    /\ cam_pc' = "done"
    /\ exit_cause' = "stopped"
    /\ UNCHANGED <<max_reconnect_attempts, reconnect_attempts, cap, running,
                   connected, frame, consecutive_failures, reconnects_made,
                   reconnect_ok, stop_called, passes_after_stop, got, got_done>>

\* RTSPCameraCapture.stop, called by BirdWatcherApp.stop after start.
Stop ==
    /\ cam_pc # "new"
    /\ running' = FALSE
    /\ stop_called' = TRUE
    /\ passes_after_stop' = 0
    /\ UNCHANGED <<max_reconnect_attempts, reconnect_attempts, cap,
                   connected, frame, consecutive_failures, cam_pc,
                   exit_cause, reconnects_made, reconnect_ok, got, got_done>>

\* A consumer calls get_frame.
GetFrame ==
    /\ got' = GetFrameResult(Cam)
    /\ got_done' = (cam_pc = "done")
    /\ UNCHANGED <<camvars, exit_cause, reconnects_made, reconnect_ok,
                   stop_called, passes_after_stop>>

\* ======================================================================
\* CameraCapture (src/camera.py): the FIFO camera
\* ======================================================================

\* CameraCapture.__init__
InitFifo ==
    /\ frame_buffer = <<>>
    /\ fifo_running = FALSE
    /\ fifo_pc = "new"
    /\ captured = 0
    /\ delivered = <<>>

\* run up to the loop: the capture is opened, self.running = True.
FifoStart ==
    /\ fifo_pc = "new"
    /\ fifo_pc' = "loop"
    /\ fifo_running' = TRUE
    /\ UNCHANGED <<frame_buffer, captured, delivered>>

\* One pass of run's loop; ret: self.cap.read() delivered a frame.
FifoPass ==
    /\ fifo_pc = "loop"
    /\ fifo_running
    /\ \E ret \in BOOLEAN :
         IF ret
         THEN /\ captured < MaxCaptured
              /\ captured' = captured + 1
              /\ frame_buffer' = DequeAppend(frame_buffer, captured + 1,
                                             MaxBufferSize)
         ELSE UNCHANGED <<frame_buffer, captured>>
    /\ UNCHANGED <<fifo_running, fifo_pc, delivered>>

\* The loop test fails: the capture is released and run returns.
FifoExit ==
    /\ fifo_pc = "loop"
    /\ ~fifo_running
    /\ fifo_pc' = "done"
    /\ UNCHANGED <<frame_buffer, fifo_running, captured, delivered>>

\* CameraCapture.stop
FifoStop ==
    /\ fifo_pc # "new"
    /\ fifo_running' = FALSE
    /\ UNCHANGED <<frame_buffer, fifo_pc, captured, delivered>>

\* CameraCapture.get_frame: None on an empty buffer, else popleft.
FifoGetFrame ==
    /\ IF frame_buffer = <<>>
       THEN UNCHANGED <<frame_buffer, delivered>>
       ELSE /\ frame_buffer' = Tail(frame_buffer)
            /\ delivered' = Append(delivered, Head(frame_buffer))
    /\ UNCHANGED <<fifo_running, fifo_pc, captured>>

\* ======================================================================
\* One get_clip call of the _write_clip thread, statement by statement,
\* beside the detection loop's appends
\* ======================================================================

InitGetClip ==
    /\ gc_pc = "idle"
    /\ best_windows_motion = -1
    /\ idx = 0
    /\ clip = <<>>
    /\ consistent = {}
    /\ raced = 0

\* No stop() call yet.
InitApp == cycles_after_stop = 0

\* Is the call between its first and its last statement?
InGetClip == gc_pc \in {"max", "index", "slice"}

\* A _write_clip thread reaches self.buffer.get_clip(), the one before it
\* having ended; the trigger that started the thread found the buffer ready.
GcCall ==
    /\ gc_pc \in {"idle", "done", "failed"}
    /\ IsReady(Buf)
    /\ gc_pc' = "max"
    /\ best_windows_motion' = -1
    /\ idx' = 0
    /\ clip' = <<>>
    /\ consistent' = {GetClip(Buf)}
    /\ raced' = 0
    /\ UNCHANGED <<bufvars, bufhist>>

\* best_windows_motion = max(self.window_totals)
GcMax ==
    /\ gc_pc = "max"
    /\ best_windows_motion' = MaxSeq(window_totals)
    /\ gc_pc' = "index"
    /\ UNCHANGED <<idx, clip, consistent, raced, bufvars, bufhist>>

\* idx = self.window_totals.index(best_windows_motion): ValueError when
\* the value is not in the deque.
GcIndex ==
    /\ gc_pc = "index"
    /\ IF \E i \in 1..Len(window_totals) :
              window_totals[i] = best_windows_motion
       THEN /\ idx' = CHOOSE i \in 1..Len(window_totals) :
                         /\ window_totals[i] = best_windows_motion
                         /\ \A j \in 1..(i - 1) :
                                window_totals[j] # best_windows_motion
            /\ gc_pc' = "slice"
       ELSE /\ idx' = idx
            /\ gc_pc' = "failed"
    /\ UNCHANGED <<best_windows_motion, clip, consistent, raced, bufvars,
                   bufhist>>

\* return list(self.buffer)[idx:idx + self.max_clip_length]
GcSlice ==
    /\ gc_pc = "slice"
    /\ clip' = Slice(buffer, idx, max_clip_length)
    /\ gc_pc' = "done"
    /\ UNCHANGED <<best_windows_motion, idx, consistent, raced, bufvars,
                   bufhist>>

\* The detection loop's self.buffer.append(frame, movement), at any point
\* of the call.
GcAppend ==
    /\ InGetClip => raced < MaxRaced
    /\ \E movement \in BOOLEAN :
         \E b \in {ClipAppend(Buf, NextFrame(Buf),
                             IF movement THEN Unit ELSE 0)} :
            /\ SetBuf(b)
            /\ consistent' = IF InGetClip THEN consistent \cup {GetClip(b)}
                              ELSE consistent
    /\ raced' = IF InGetClip THEN raced + 1 ELSE raced
    /\ UNCHANGED <<gc_pc, best_windows_motion, idx, clip, bufhist>>

NextCamera ==
    \/ (CamStart /\ UNCHANGED <<bufvars, bufhist, detvars, dethist,
                      fifovars, fifohist, envvars,
        gcvars, gchist, apphist>>)
    \/ (RunConnect /\ UNCHANGED <<bufvars, bufhist, detvars, dethist,
                      fifovars, fifohist, envvars,
        gcvars, gchist, apphist>>)
    \/ (RunPass /\ UNCHANGED <<bufvars, bufhist, detvars, dethist,
                      fifovars, fifohist, envvars,
        gcvars, gchist, apphist>>)
    \/ (RunExit /\ UNCHANGED <<bufvars, bufhist, detvars, dethist,
                      fifovars, fifohist, envvars,
        gcvars, gchist, apphist>>)
    \/ (Stop /\ UNCHANGED <<bufvars, bufhist, detvars, dethist,
                      fifovars, fifohist, envvars,
        gcvars, gchist, apphist>>)
    \/ (GetFrame /\ UNCHANGED <<bufvars, bufhist, detvars, dethist,
                      fifovars, fifohist, envvars,
        gcvars, gchist, apphist>>)

\* The camera runs; the detector and its buffer are left as constructed.
InitCameraRun ==
    /\ InitBuffer /\ InitDetector /\ InitCamera /\ InitFifo
    /\ calls_hang = FALSE
    /\ stream = "any"
    /\ InitGetClip /\ InitApp
    /\ float_scores = FALSE /\ fed = <<>>
    /\ enable_posts = TRUE

SpecCamera ==
    /\ InitCameraRun
    /\ [][NextCamera]_<<bufvars, bufhist, detvars, dethist, camvars, camhist,
                       fifovars, fifohist, envvars,
        gcvars, gchist, apphist>>

\* ------------------------- the camera on a source that comes and goes
\* The RTSP source goes down or comes back.
StreamChange ==
    /\ stream \in {"up", "down"}
    /\ stream' = IF stream = "up" THEN "down" ELSE "up"
    /\ UNCHANGED <<calls_hang, camvars, camhist>>

NextStream ==
    \/ (CamStart /\ UNCHANGED <<bufvars, bufhist, detvars, dethist,
                      fifovars, fifohist, envvars, gcvars, gchist, apphist>>)
    \/ (RunConnect /\ UNCHANGED <<bufvars, bufhist, detvars, dethist,
                      fifovars, fifohist, envvars, gcvars, gchist, apphist>>)
    \/ (RunPass /\ UNCHANGED <<bufvars, bufhist, detvars, dethist,
                      fifovars, fifohist, envvars, gcvars, gchist, apphist>>)
    \/ (RunExit /\ UNCHANGED <<bufvars, bufhist, detvars, dethist,
                      fifovars, fifohist, envvars, gcvars, gchist, apphist>>)
    \/ (Stop /\ UNCHANGED <<bufvars, bufhist, detvars, dethist,
                      fifovars, fifohist, envvars, gcvars, gchist, apphist>>)
    \/ (StreamChange /\ UNCHANGED <<bufvars, bufhist, detvars, dethist,
                      fifovars, fifohist, gcvars, gchist, apphist>>)

\* The camera as BirdWatcherApp builds it: max_reconnect_attempts = -1.
InitStreamRun ==
    /\ InitBuffer /\ InitDetector /\ InitCamera /\ InitFifo
    /\ calls_hang = FALSE
    /\ stream \in {"up", "down"}
    /\ InitGetClip /\ InitApp
    /\ float_scores = FALSE /\ fed = <<>>
    /\ max_reconnect_attempts = Unlimited
    /\ enable_posts = TRUE

SpecStream ==
    /\ InitStreamRun
    /\ [][NextStream]_<<bufvars, bufhist, detvars, dethist, camvars, camhist,
                       fifovars, fifohist, envvars, gcvars, gchist, apphist>>

\* The capture thread keeps running: while self.running holds, the loop
\* goes on to its next pass.
SpecStreamLive ==
    /\ SpecStream
    /\ WF_<<bufvars, bufhist, detvars, dethist, camvars, camhist, fifovars,
            fifohist, envvars, gcvars, gchist, apphist>>(
          RunPass /\ UNCHANGED <<bufvars, bufhist, detvars, dethist,
                      fifovars, fifohist, envvars, gcvars, gchist, apphist>>)

\* ------------------------------- the FIFO camera and one consumer
NextFifo ==
    \/ (FifoStart /\ UNCHANGED <<bufvars, bufhist, detvars, dethist,
                                 camvars, camhist, envvars,
        gcvars, gchist, apphist>>)
    \/ (FifoPass /\ UNCHANGED <<bufvars, bufhist, detvars, dethist,
                                camvars, camhist, envvars,
        gcvars, gchist, apphist>>)
    \/ (FifoExit /\ UNCHANGED <<bufvars, bufhist, detvars, dethist,
                                camvars, camhist, envvars,
        gcvars, gchist, apphist>>)
    \/ (FifoStop /\ UNCHANGED <<bufvars, bufhist, detvars, dethist,
                                camvars, camhist, envvars,
        gcvars, gchist, apphist>>)
    \/ (FifoGetFrame /\ UNCHANGED <<bufvars, bufhist, detvars, dethist,
                                    camvars, camhist, envvars,
        gcvars, gchist, apphist>>)

\* The other objects are left as constructed.
InitFifoRun ==
    /\ InitBuffer /\ InitDetector /\ InitCamera /\ InitFifo
    /\ calls_hang = FALSE
    /\ stream = "any"
    /\ InitGetClip /\ InitApp
    /\ float_scores = FALSE /\ fed = <<>>
    /\ max_reconnect_attempts = Unlimited
    /\ enable_posts = TRUE

SpecFifo ==
    /\ InitFifoRun
    /\ [][NextFifo]_<<bufvars, bufhist, detvars, dethist, camvars, camhist,
                     fifovars, fifohist, envvars,
        gcvars, gchist, apphist>>

vars == <<bufvars, bufhist, detvars, dethist, camvars, camhist,
          fifovars, fifohist, envvars,
        gcvars, gchist, apphist>>

\* The window totals are followed while rounding has moved them at most
\* MaxDrift out of the range of a window sum.
WithinDrift(b) ==
    \A i \in 1..Len(b.window_totals) :
        /\ b.window_totals[i] >= -MaxDrift
        /\ b.window_totals[i] <= b.max_clip_length * Unit + MaxDrift

\* ------------------------------------------------ the ClipBuffer alone
\* A caller appends one (frame, score) pair, as buffer_test.py does.
BufAppend ==
    /\ \E motion \in Scores :
        /\ WithinDrift(ClipAppend(Buf, NextFrame(Buf), motion))
        /\ SetBuf(ClipAppend(Buf, NextFrame(Buf), motion))
        /\ HistAfter(Buf, motion)
    /\ fed' = fed
    /\ UNCHANGED <<detvars, dethist>>

NextBuffer == BufAppend /\ UNCHANGED <<camvars, camhist, fifovars, fifohist, envvars,
        gcvars, gchist, apphist>>

\* The detector and the camera are left as constructed.
InitBufferRun ==
    /\ InitBuffer /\ InitDetector /\ InitCamera /\ InitFifo
    /\ calls_hang = FALSE
    /\ stream = "any"
    /\ InitGetClip /\ InitApp
    /\ float_scores = FALSE /\ fed = <<>>
    /\ max_reconnect_attempts = Unlimited
    /\ enable_posts = TRUE

SpecBuffer == InitBufferRun /\ [][NextBuffer]_vars

\* ------------------------------------------ the buffer of buffer_test.py
\* ClipBuffer(1, 4), with the slack of the source.
InitTestRun ==
    /\ BufIs(NewClipBuffer(Fps, TestClipSeconds, SourceSlack))
    /\ recent = <<>> /\ score_class = "bool" /\ evicted = FALSE
    /\ held_full = FALSE /\ trimmed = <<>>
    /\ InitDetector /\ InitCamera /\ InitFifo
    /\ calls_hang = FALSE
    /\ stream = "any"
    /\ InitGetClip /\ InitApp
    /\ float_scores = FALSE /\ fed = <<>>
    /\ max_reconnect_attempts = Unlimited
    /\ enable_posts = TRUE

\* for m in motion: buffer.append(np.empty(0), m), with m 0 or 1.
TestAppend ==
    /\ Len(fed) < MaxFed
    /\ \E m \in {0, 1} :
         /\ SetBuf(ClipAppend(Buf, NextFrame(Buf), m * Unit))
         /\ fed' = Append(fed, m)
    /\ UNCHANGED <<recent, score_class, evicted, held_full, trimmed>>
    /\ UNCHANGED <<detvars, dethist, camvars, camhist, fifovars, fifohist, envvars,
        gcvars, gchist, apphist>>

NextTest == TestAppend

SpecTest == InitTestRun /\ [][NextTest]_vars

\* The scores test_something and test_trim feed, and the window totals
\* they expect.
TestSomethingMotion == <<1, 0, 1, 1, 0, 1, 0, 0>>
TestSomethingWindows == <<3, 2, 3, 2, 1>>
TestTrimMotion == <<0, 0, 0, 0, 1, 0, 1, 1, 0, 1, 0, 0, 0, 0>>
TestTrimWindows == <<3, 2, 3, 2, 1, 1, 0>>

\* A sequence of whole scores in fixed point.
Scaled(s) == [i \in DOMAIN s |-> s[i] * Unit]

\* ------------------------------------- the ClipBuffer fed float scores
InitBufferFloatRun ==
    /\ InitBuffer /\ InitDetector /\ InitCamera /\ InitFifo
    /\ calls_hang = FALSE
    /\ stream = "any"
    /\ InitGetClip /\ InitApp
    /\ float_scores = TRUE /\ fed = <<>>
    /\ max_reconnect_attempts = Unlimited
    /\ enable_posts = TRUE

SpecBufferFloat == InitBufferFloatRun /\ [][NextBuffer]_vars

\* ------------------------------- the Detector with an abstract camera
\* get_frame returns None or a frame, whatever the camera does.
NextDetector ==
    \/ (DetNoFrame /\ UNCHANGED <<camvars, camhist, fifovars, fifohist, envvars,
        gcvars, gchist, apphist>>)
    \/ (DetCycle /\ UNCHANGED <<camvars, camhist, fifovars, fifohist, envvars,
        gcvars, gchist, apphist>>)
    \/ (Tick /\ UNCHANGED <<camvars, camhist, fifovars, fifohist, envvars,
        gcvars, gchist, apphist>>)
    \/ (ClipBegin /\ UNCHANGED <<camvars, camhist, fifovars, fifohist, envvars,
        gcvars, gchist, apphist>>)
    \/ (ClipGet /\ UNCHANGED <<camvars, camhist, fifovars, fifohist, envvars,
        gcvars, gchist, apphist>>)
    \/ (ClipSave /\ UNCHANGED <<camvars, camhist, fifovars, fifohist, envvars,
        gcvars, gchist, apphist>>)
    \/ (NotifyRun /\ UNCHANGED <<camvars, camhist, fifovars, fifohist, envvars,
        gcvars, gchist, apphist>>)

\* The camera is left as constructed.
InitDetectorRun ==
    /\ InitBuffer /\ InitDetector /\ InitCamera /\ InitFifo
    /\ calls_hang = FALSE
    /\ stream = "any"
    /\ InitGetClip /\ InitApp
    /\ float_scores = FALSE /\ fed = <<>>
    /\ max_reconnect_attempts = Unlimited

SpecDetector == InitDetectorRun /\ [][NextDetector]_vars

\* ------------------------------- the Detector's loop while its buffer fills
\* The loop alone, on a buffer of ClipSeconds * Fps + WarmupSlack pairs, with
\* a storage whose save_image may fail to return.
NextWarmup ==
    \/ (DetNoFrame /\ UNCHANGED <<camvars, camhist, fifovars, fifohist, envvars,
        gcvars, gchist, apphist>>)
    \/ (DetCycle /\ UNCHANGED <<camvars, camhist, fifovars, fifohist, envvars,
        gcvars, gchist, apphist>>)
    \/ (Tick /\ UNCHANGED <<camvars, camhist, fifovars, fifohist, envvars,
        gcvars, gchist, apphist>>)

InitWarmupRun ==
    /\ BufIs(NewClipBuffer(Fps, ClipSeconds, WarmupSlack))
    /\ recent = <<>> /\ score_class = "bool" /\ evicted = FALSE
    /\ held_full = FALSE /\ trimmed = <<>>
    /\ InitDetector /\ InitCamera /\ InitFifo
    /\ calls_hang = TRUE
    /\ stream = "any"
    /\ InitGetClip /\ InitApp
    /\ float_scores = FALSE /\ fed = <<>>
    /\ max_reconnect_attempts = Unlimited
    /\ enable_posts = FALSE

SpecWarmup == InitWarmupRun /\ [][NextWarmup]_vars

\* Frames keep being available and time advances: the loop keeps processing
\* frames (run never leaves its while loop but by an exception) and the
\* clock keeps ticking up to MaxTime.
SpecWarmupLive ==
    /\ SpecWarmup
    /\ WF_vars(DetCycle /\ UNCHANGED <<camvars, camhist, fifovars, fifohist, envvars,
        gcvars, gchist, apphist>>)
    /\ WF_vars(Tick /\ UNCHANGED <<camvars, camhist, fifovars, fifohist, envvars,
        gcvars, gchist, apphist>>)

\* ------------------------------- the Detector reading the RTSP camera
\* BirdWatcherApp.start runs both threads; each pass of the detector's loop
\* takes what camera.get_frame() returns at that moment.  The threads a
\* trigger starts are followed with the Detector alone, not here.
SysNoFrame == GetFrameResult(Cam) = 0 /\ DetNoFrame

SysCycle == GetFrameResult(Cam) # 0 /\ DetCycle

NextSystem ==
    \/ (CamStart /\ UNCHANGED <<bufvars, bufhist, detvars, dethist,
                      fifovars, fifohist, envvars,
        gcvars, gchist, apphist>>)
    \/ (RunConnect /\ UNCHANGED <<bufvars, bufhist, detvars, dethist,
                      fifovars, fifohist, envvars,
        gcvars, gchist, apphist>>)
    \/ (RunPass /\ UNCHANGED <<bufvars, bufhist, detvars, dethist,
                      fifovars, fifohist, envvars,
        gcvars, gchist, apphist>>)
    \/ (SysNoFrame /\ UNCHANGED <<camvars, camhist, fifovars, fifohist, envvars,
        gcvars, gchist, apphist>>)
    \/ (SysCycle /\ UNCHANGED <<camvars, camhist, fifovars, fifohist, envvars,
        gcvars, gchist, apphist>>)

\* A camera with a bounded reconnect budget, posts disabled.
InitSystemRun ==
    /\ InitBuffer /\ InitDetector /\ InitCamera /\ InitFifo
    /\ calls_hang = FALSE
    /\ stream = "any"
    /\ InitGetClip /\ InitApp
    /\ float_scores = FALSE /\ fed = <<>>
    /\ max_reconnect_attempts = ReconnectLimit
    /\ enable_posts = FALSE

SpecSystem == InitSystemRun /\ [][NextSystem]_vars

\* ------------------------- get_clip racing the detection loop's appends
NextClipRace ==
    \/ (GcCall /\ UNCHANGED <<detvars, dethist, camvars, camhist, fifovars,
                               fifohist, envvars, apphist>>)
    \/ (GcMax /\ UNCHANGED <<detvars, dethist, camvars, camhist, fifovars,
                              fifohist, envvars, apphist>>)
    \/ (GcIndex /\ UNCHANGED <<detvars, dethist, camvars, camhist, fifovars,
                                fifohist, envvars, apphist>>)
    \/ (GcSlice /\ UNCHANGED <<detvars, dethist, camvars, camhist, fifovars,
                                fifohist, envvars, apphist>>)
    \/ (GcAppend /\ UNCHANGED <<detvars, dethist, camvars, camhist, fifovars,
                                 fifohist, envvars, apphist>>)

\* The detector and the camera are left as constructed.
InitClipRaceRun ==
    /\ InitBuffer /\ InitDetector /\ InitCamera /\ InitFifo
    /\ calls_hang = FALSE
    /\ stream = "any"
    /\ InitGetClip /\ InitApp
    /\ float_scores = FALSE /\ fed = <<>>
    /\ max_reconnect_attempts = Unlimited
    /\ enable_posts = FALSE

SpecClipRace == InitClipRaceRun /\ [][NextClipRace]_vars

\* ------------------------------- the application being stopped
\* BirdWatcherApp.stop: self.running = False, self.camera.stop().
AppStop ==
    /\ Stop
    /\ cycles_after_stop' = 0

\* The passes of the detector's loop, counted from the stop() call on.
CountCycle ==
    cycles_after_stop' = IF stop_called THEN Min(cycles_after_stop + 1, 2)
                         ELSE 0

ShutNoFrame == SysNoFrame /\ CountCycle

ShutCycle == SysCycle /\ CountCycle

NextShutdown ==
    \/ (CamStart /\ UNCHANGED <<bufvars, bufhist, detvars, dethist,
                      fifovars, fifohist, envvars, gcvars, gchist, apphist>>)
    \/ (RunConnect /\ UNCHANGED <<bufvars, bufhist, detvars, dethist,
                      fifovars, fifohist, envvars, gcvars, gchist, apphist>>)
    \/ (RunPass /\ UNCHANGED <<bufvars, bufhist, detvars, dethist,
                      fifovars, fifohist, envvars, gcvars, gchist, apphist>>)
    \/ (RunExit /\ UNCHANGED <<bufvars, bufhist, detvars, dethist,
                      fifovars, fifohist, envvars, gcvars, gchist, apphist>>)
    \/ (AppStop /\ UNCHANGED <<bufvars, bufhist, detvars, dethist,
                      fifovars, fifohist, envvars, gcvars, gchist>>)
    \/ (ShutNoFrame /\ UNCHANGED <<camvars, camhist, fifovars, fifohist,
                      envvars, gcvars, gchist>>)
    \/ (ShutCycle /\ UNCHANGED <<camvars, camhist, fifovars, fifohist,
                      envvars, gcvars, gchist>>)

\* The application as built, on a source that is up, posts disabled.
InitShutdownRun ==
    /\ InitBuffer /\ InitDetector /\ InitCamera /\ InitFifo
    /\ calls_hang = FALSE
    /\ stream = "up"
    /\ InitGetClip /\ InitApp
    /\ float_scores = FALSE /\ fed = <<>>
    /\ max_reconnect_attempts = Unlimited
    /\ enable_posts = FALSE

SpecShutdown == InitShutdownRun /\ [][NextShutdown]_vars


\* ----------------------------------------------------------------------
\* Claims about the ClipBuffer, checked under SpecBuffer
\* ----------------------------------------------------------------------

C2_LastTotalIsAppendedSum ==
    score_class \in {"bool", "valid"} =>
        Last(window_totals) = SumSeq(recent)

\* C2 amended: the same for sequences whose scores are each exactly 0 or 1.
C2_LastTotalIsAppendedSumBool ==
    score_class = "bool" => Last(window_totals) = SumSeq(recent)

\* C2's case: L or more appends of 0/1 scores, the buffer trimmed below one
\* window, so that the sum spans scores no longer retained.
C2_Witness ==
    /\ score_class = "bool"
    /\ Len(recent) = max_clip_length
    /\ Len(buffer) < max_clip_length
    /\ Last(window_totals) > 0

C4_NeverBelowOneWindow ==
    /\ held_full => Len(buffer) >= max_clip_length
    /\ \A i \in DOMAIN trimmed : trimmed[i].entries > 1

\* C4 amended: trim_start evicts at most TrimCount pairs per append, each
\* scoring below the threshold, whatever the number of window_totals
\* entries; an eviction made while more than one entry exists leaves at
\* least L pairs.
C4_TrimEvictsLowHeadsOnly ==
    /\ Len(trimmed) <= TrimCount
    /\ \A i \in DOMAIN trimmed :
           /\ trimmed[i].score < Threshold
           /\ trimmed[i].entries > 1 => trimmed[i].left >= max_clip_length

\* C4's case: a buffer that held a full window and was trimmed below it,
\* the eviction made with a single window_totals entry.
C4_Witness ==
    /\ held_full
    /\ Len(buffer) < max_clip_length
    /\ trimmed # <<>>
    /\ trimmed[Len(trimmed)].entries = 1

\* ----------------------------------------------------------------------
\* Claims about the Detector, checked under SpecDetector
\* ----------------------------------------------------------------------

\* C5: _trigger_event is called only in state Idle and, after a first
\* trigger, only once cooldown_seconds have passed since it; Idle is
\* re-entered only from Cooldown with now - cooldown_start >= cooldown_seconds.
C5_CooldownBetweenTriggers ==
    [][/\ triggers' > triggers =>
             /\ state = STATE_IDLE
             /\ last_trigger >= 0 => now - last_trigger >= CooldownSeconds
       /\ (state # STATE_IDLE /\ state' = STATE_IDLE) =>
             /\ state = STATE_COOLDOWN
             /\ now - cooldown_start >= CooldownSeconds]_vars

\* C5's case: a second trigger has fired.
C5_Witness == triggers >= 2 /\ state = STATE_TRIGGERED

\* C6 as stated: a trigger fires only after some run of N consecutive
\* motion-positive cycles.
C6_NoTriggerWithoutFullRun ==
    state = STATE_TRIGGERED => max_run >= DetectionFramesRequired

\* C6 amended: a trigger fires only after N motion-positive cycles were
\* processed in Idle since Idle was entered; with fewer, trigger_counter is
\* at most their number.
C6_NoTriggerBeforeNPositives ==
    /\ (state = STATE_IDLE /\ idle_pos < DetectionFramesRequired) =>
           trigger_counter <= idle_pos
    /\ state = STATE_TRIGGERED => idle_pos = DetectionFramesRequired

\* C6's case: a trigger fired although every run was shorter than N.
C6_Witness ==
    state = STATE_TRIGGERED /\ max_run < DetectionFramesRequired

\* C7 as stated: at most one _write_clip thread is alive, and is_recording
\* is already set when one has been spawned.
C7_SingleFlight ==
    /\ ClipJobCount(clip_jobs) <= 1
    /\ clip_jobs["spawned"] > 0 => is_recording

\* C8 as stated: after a failure of a persistence or notification
\* collaborator the detection loop is still running.
C8_FailureContained == last_failure # "none" => det_pc = "running"

\* ----------------------------------------------------------------------
\* Claims about RTSPCameraCapture, checked under SpecCamera
\* ----------------------------------------------------------------------

\* C9 as stated: a camera with max_reconnect_attempts = ReconnectLimit
\* whose reconnects never succeed stops after exactly that many _reconnect
\* attempts, and every get_frame call made from then on returns None.
C9_ExhaustedThenNoFrame ==
    (max_reconnect_attempts = ReconnectLimit /\ exit_cause = "exhausted"
        /\ ~reconnect_ok) =>
        /\ reconnects_made = ReconnectLimit
        /\ cam_pc = "done"
        /\ got_done => got = 0

\* C10 as stated: once stop() has been called, the loop begins at most one
\* more pass.
C10_StopEndsLoop == stop_called => passes_after_stop <= 1

\* ----------------------------------------------------------------------
\* Further claims about the ClipBuffer
\* ----------------------------------------------------------------------

\* C13: whenever is_ready() is true, get_clip() returns exactly L frames.
C13_ReadyClipHasLFrames ==
    (Len(buffer) = maxlen) => Len(GetClip(Buf)) = max_clip_length

\* C13's case: the buffer is ready and its best window is not the oldest.
C13_Witness ==
    /\ Len(buffer) = maxlen
    /\ window_totals[1] < MaxSeq(window_totals)

C15_MotionPercentInRange ==
    (recent # <<>> /\ score_class \in {"bool", "valid"}) =>
        /\ MaxSeq(window_totals) >= 0
        /\ MaxSeq(window_totals) <= max_clip_length * Unit

\* C16: appending a score outside [0;1] leaves the buffer, motion_flags
\* and window_totals exactly as appending 0 does, in every reachable state.
C16_InvalidScoreIsZero ==
    \A motion \in Scores :
        (motion > Unit \/ motion < 0) =>
            ClipAppend(Buf, NextFrame(Buf), motion)
                = ClipAppend(Buf, NextFrame(Buf), 0)

\* C16's case: an invalid score was appended and is retained as 0 behind
\* a pair that keeps it from being trimmed.
C16_Witness ==
    /\ score_class = "any"
    /\ Len(motion_flags) >= 2
    /\ Last(motion_flags) = 0
    /\ Last(recent) = 0

\* ----------------------------------------------------------------------
\* The scenarios of buffer_test.py, checked under SpecTest
\* ----------------------------------------------------------------------

\* C17: a fresh ClipBuffer(1, 4) fed [1,0,1,1,0,1,0,0] ends with
\* window_totals = [3,2,3,2,1].
C17_TestSomething ==
    fed = TestSomethingMotion => window_totals = Scaled(TestSomethingWindows)

\* C17's case: the eight scores have been fed.
C17_Witness == fed = TestSomethingMotion /\ Len(buffer) = Len(fed)

\* C18: a fresh ClipBuffer(1, 4) fed [0,0,0,0,1,0,1,1,0,1,0,0,0,0] ends
\* with window_totals = [3,2,3,2,1,1,0], the leading zero-score pairs
\* trimmed.
C18_TestTrim ==
    fed = TestTrimMotion =>
        /\ window_totals = Scaled(TestTrimWindows)
        /\ Len(buffer) = Len(fed) - 4

\* C18's case: the fourteen scores have been fed.
C18_Witness == fed = TestTrimMotion /\ motion_flags[1] = Unit

\* ----------------------------------------------------------------------
\* Claims about a lost connection
\* ----------------------------------------------------------------------

\* C11 as stated: a get_frame call made while the connection is lost (the
\* loop running, a reconnect having failed, none having succeeded since)
\* returns None.
C11_NoFrameWhileLost ==
    [][(GetFrame /\ cam_pc = "loop" /\ ~connected) => got' = 0]_vars

\* C12 as stated: once the camera's loop has stopped on an exhausted
\* reconnect budget, the detector fires no further trigger: no pass of its
\* loop enters the Triggered state.
C12_NoTriggerAfterExhaustion ==
    [][(exit_cause = "exhausted" /\ state # STATE_TRIGGERED)
          => state' # STATE_TRIGGERED]_vars

\* ----------------------------------------------------------------------
\* Claims about the trigger path
\* ----------------------------------------------------------------------

\* A pass of the detector's loop that processed a frame.
CycleStep == global_frame_count' # global_frame_count

C20_ContendedClipDropped ==
    /\ [][(triggers' = triggers + 1 /\ dropped')
              => (/\ clip_jobs' = clip_jobs
                  /\ notify'["playsound"] = notify["playsound"] + 1
                  /\ notify'["send_photo"] = notify["send_photo"]
                                             + (IF enable_posts THEN 1 ELSE 0)
                  /\ state' = STATE_TRIGGERED
                  /\ trigger_counter' = 0
                  /\ det_pc' = "running")]_vars
    /\ [][ClipJobCount(clip_jobs') > ClipJobCount(clip_jobs)
              => (triggers' = triggers + 1 /\ ~dropped')]_vars

C20_Witness ==
    /\ dropped
    /\ state = STATE_COOLDOWN
    /\ ClipJobCount(clip_jobs) = 1

\* ----------------------------------------------------------------------
\* Claims about the FIFO camera
\* ----------------------------------------------------------------------

\* C21 as stated: get_frame returns every captured frame exactly once and in
\* capture order: the frames returned so far, followed by those waiting in
\* the buffer, are the frames captured so far, in order.
C21_EveryFrameOnceInOrder ==
    delivered \o frame_buffer = [i \in 1..captured |-> i]

\* ----------------------------------------------------------------------
\* Claims about the detector's states
\* ----------------------------------------------------------------------

\* The cycle just processed was motion-positive.
WasPositive == run_len' > 0

\* The trigger condition of an Idle cycle, on the counter as updated in the
\* cycle and the buffer as appended to in the cycle.
FireCondition ==
    /\ CountMovement(trigger_counter, WasPositive) >= DetectionFramesRequired
    /\ IsReady(Buf)'
    /\ MotionPercentAtLeast(Buf, MovementLevelRequired)'

C23_CounterBoundedAbove ==
    det_pc = "running" => trigger_counter <= DetectionFramesRequired

\* C24: trigger_counter is never negative; an Idle cycle that fires no
\* trigger adds one to it when motion-positive and otherwise takes one off,
\* stopping at 0.
C24_CounterFloorZero ==
    /\ trigger_counter >= 0
    /\ [][/\ trigger_counter' >= 0
          /\ (CycleStep /\ state = STATE_IDLE /\ state' = STATE_IDLE
                /\ det_pc' = "running")
               => trigger_counter' =
                     IF WasPositive THEN trigger_counter + 1
                     ELSE IF trigger_counter = 0 THEN 0
                          ELSE trigger_counter - 1]_vars

\* C24's case: the first cycle was motion-negative and the counter, 0
\* before it, is still 0.
C24_Witness ==
    /\ state = STATE_IDLE
    /\ global_frame_count = 1
    /\ Len(buffer) = 1
    /\ run_len = 0
    /\ trigger_counter = 0

C27_NoFrameNoChange ==
    [][(GetFrameResult(Cam) = 0 \/ ~CycleStep) =>
          /\ UNCHANGED <<state, trigger_counter, cooldown_start>>
          /\ UNCHANGED bufvars
          /\ UNCHANGED <<triggers, det_pc, last_failure>>]_vars

\* C27's case: the detector's loop runs beside a connected camera that has
\* not decoded a frame yet, its reads failing.
C27_Witness ==
    /\ GetFrameResult(Cam) = 0
    /\ cam_pc = "loop"
    /\ consecutive_failures > 1
    /\ det_pc = "running"
    /\ global_frame_count = 0

\* C28: a step that ends a _write_clip thread, normally or by an exception
\* out of get_clip, save_video or the start of the send thread, leaves
\* is_recording false; and is_recording is false whenever no _write_clip
\* thread is past its first statement.
C28_FlagClearedWhenJobEnds ==
    /\ ~is_recording
    /\ [][/\ ClipJobCount(clip_jobs') < ClipJobCount(clip_jobs)
             => ~is_recording'
          /\ (clip_jobs'["fetch"] + clip_jobs'["save"] = 0)
             => ~is_recording']_vars

\* C28's case: after a clip job that ended in get_clip raising, the flag is
\* clear and a later trigger has started a new clip job.
C28_Witness ==
    /\ last_failure = "get_clip"
    /\ triggers = 2
    /\ ~dropped
    /\ ~is_recording
    /\ clip_jobs["spawned"] = 1
    /\ ClipJobCount(clip_jobs) = 1

\* C29 as stated: no call on the detection thread holds it: the loop is
\* never waiting in a persist or send call that does not return.
C29_LoopNeverHeld == det_pc # "blocked"

\* ----------------------------------------------------------------------
\* Claims about the initial connection
\* ----------------------------------------------------------------------

\* C30 as stated: with unbounded reconnect attempts the capture loop does
\* not terminate on a failed connection, the initial one included: run
\* returns only after stop() was called.
C30_InitialFailureRetried ==
    (max_reconnect_attempts = Unlimited /\ cam_pc = "done") => stop_called


\* ----------------------------------------------------------------------
\* Claims about the camera on a source that comes and goes, checked under
\* SpecStream and SpecStreamLive
\* ----------------------------------------------------------------------

\* C31: with max_reconnect_attempts = -1 the loop, once entered, is left
\* only after stop() has cleared self.running, whatever reads and reconnects
\* fail; and while the source is up and the loop runs, the latest-frame slot
\* gets a new frame (for the frames and failure counts the model follows).
C31_SurvivesDropsAndRecovers ==
    /\ [][(cam_pc = "loop" /\ cam_pc' = "done") => ~running]_vars
    /\ [](exit_cause # "exhausted")
    /\ \A k \in 0..(MaxFrames - 1) :
          (stream = "up" /\ cam_pc = "loop" /\ running /\ frame = k
             /\ consecutive_failures
                   < max_consecutive_failures + FailureSlack)
          ~> (frame > k \/ stream = "down" \/ ~running)

\* Reconnects have failed and one has succeeded, the source is up and the
\* slot holds the last frame read since.
C31_Witness ==
    /\ stream = "up"
    /\ cam_pc = "loop"
    /\ reconnects_made >= 2
    /\ reconnect_ok
    /\ connected
    /\ consecutive_failures = 0
    /\ frame = MaxFrames


\* ----------------------------------------------------------------------
\* Claims about the latest-frame slot and the reconnect rule, checked
\* under SpecCamera
\* ----------------------------------------------------------------------

\* C32: the slot is only ever replaced by a newer frame, and get_frame
\* returns what the slot holds (None while nothing was decoded), so no
\* get_frame call returns a frame older than an earlier call did.
C32_LatestWins ==
    [][/\ frame' >= frame
       /\ GetFrame => (got' = frame /\ got' >= got)]_vars

\* A consumer slower than the source: it got frame 1 and the slot already
\* holds a later frame.
C32_Witness == got = 1 /\ frame = 2 /\ cam_pc = "loop"


\* C33 as stated: a pass of the loop that decodes a frame, and a pass in
\* which a _reconnect call succeeds, leave consecutive_failures at 0,
\* whichever branch of run made the call.
C33_CountResetOnEveryPath ==
    [][/\ frame' # frame => consecutive_failures' = 0
       /\ (reconnects_made' > reconnects_made /\ connected')
             => consecutive_failures' = 0]_vars


\* ----------------------------------------------------------------------
\* Claims about stopping the application, checked under SpecShutdown
\* ----------------------------------------------------------------------

\* C34 as stated: after BirdWatcherApp.stop the detector's loop begins at
\* most one more pass.
C34_StopEndsDetection == stop_called => cycles_after_stop <= 1


\* ----------------------------------------------------------------------
\* Claims about get_clip running beside the detection loop, checked under
\* SpecClipRace
\* ----------------------------------------------------------------------

\* C35 as stated: a get_clip call during which the detection loop appends
\* does not raise, and what it returns is max_clip_length frames long and
\* is the best window of one of the buffer states the call went through.
C35_GetClipUnderAppends ==
    /\ gc_pc # "failed"
    /\ gc_pc = "done" => /\ Len(clip) = max_clip_length
                         /\ clip \in consistent


\* ----------------------------------------------------------------------
\* Further claims about the ClipBuffer's trimming, checked under SpecBuffer
\* ----------------------------------------------------------------------

\* C36: after every append that leaves the buffer ready (maxlen pairs, the
\* trim of that append done), the oldest retained score is at least the
\* trim threshold.
C36_ReadyHeadAtThreshold ==
    Len(buffer) = maxlen => motion_flags[1] >= Threshold

\* C36's case: is_ready() was true before the last append and is false
\* after it: the append evicted the head and the trim removed the new one.
C36_Witness ==
    /\ evicted
    /\ trimmed # <<>>
    /\ Len(buffer) < maxlen


\* ----------------------------------------------------------------------
\* Claims about the counter and the warm-up, checked under SpecDetector
\* ----------------------------------------------------------------------

\* C37: _trigger_event has been called only if the loop has appended at
\* least maxlen = L + slack frames since the detector was built.
C37_NoTriggerBeforeWarmup == triggers > 0 => appended >= maxlen

\* C37's case: the first trigger, fired by the append that fills the buffer
\* for the first time.
C37_Witness ==
    /\ triggers = 1
    /\ state = STATE_TRIGGERED
    /\ appended = maxlen
    /\ global_frame_count = maxlen
    /\ Len(buffer) = maxlen


\* ----------------------------------------------------------------------
\* Claims about the shape of the ClipBuffer, checked under SpecBuffer
\* ----------------------------------------------------------------------

\* C38: motion_flags and buffer have the same length, at most maxlen, and
\* window_totals holds max(1, len(buffer) - L + 1) entries, so it is never
\* empty.
C38_DequesInStep ==
    /\ Len(motion_flags) = Len(buffer)
    /\ Len(buffer) <= maxlen
    /\ Len(window_totals) =
          IF Len(buffer) - max_clip_length + 1 > 1
          THEN Len(buffer) - max_clip_length + 1 ELSE 1
    /\ window_totals # <<>>

\* C38's case: the three deques are at their capacities, the last append
\* having pushed the oldest entry out of each.
C38_Witness ==
    /\ evicted
    /\ Len(buffer) = maxlen
    /\ Len(window_totals) = maxlen - max_clip_length + 1

\* C39: in the states Triggered and Cooldown trigger_counter is 0, and a
\* pass of the loop that starts in one of them leaves it 0.
C39_CounterZeroOutsideIdle ==
    /\ [](state \in {STATE_TRIGGERED, STATE_COOLDOWN} => trigger_counter = 0)
    /\ [][state # STATE_IDLE => trigger_counter' = trigger_counter]_vars

\* C39's case: a trigger that fired with the counter above 0 and reset it.
C39_Witness ==
    /\ state = STATE_TRIGGERED
    /\ triggers > 0
    /\ idle_run = DetectionFramesRequired
    /\ trigger_counter = 0


\* ----------------------------------------------------------------------
\* Claims about the reconnect budget, checked under SpecCamera
\* ----------------------------------------------------------------------

\* C40: with max_reconnect_attempts > 0, reconnect_attempts never exceeds
\* it, and a successful connection (the initial one or a reconnect) leaves
\* reconnect_attempts at 0.
C40_AttemptsBounded ==
    /\ [](max_reconnect_attempts > 0
            => reconnect_attempts <= max_reconnect_attempts)
    /\ [][((cam_pc = "connecting" /\ cam_pc' = "loop")
            \/ (reconnects_made' > reconnects_made /\ connected'))
           => reconnect_attempts' = 0]_vars

\* C40's case: more _reconnect attempts over the camera's lifetime than the
\* limit, a success between them having reset the count.
C40_Witness ==
    /\ max_reconnect_attempts = ReconnectLimit
    /\ reconnects_made > ReconnectLimit
    /\ reconnect_ok
    /\ reconnect_attempts = ReconnectLimit
    /\ exit_cause = "exhausted"

=============================================================================
